---- MODULE Spec2Model ----
(***************************************************************************)
(* Queue / dedup / persistence core of tdl-forward-bot.py.                 *)
(*                                                                         *)
(* A URL is a sequence of one-character strings.  The four stores          *)
(* (queue.txt, processing.txt, finished.txt, failed.txt) are sequences of  *)
(* the lines written to them; read_lines strips every line and drops the   *)
(* empty ones, as the code does.  The bot runs on one asyncio event loop:  *)
(* a handler or the worker runs without interruption from one await that   *)
(* suspends to the next, so an action is the code between two such awaits. *)
(* A process crash can fall between any two file writes, so the worker's   *)
(* claim and mark_url_processed are cut at the file writes.                *)
(***************************************************************************)
EXTENDS Integers, Sequences, FiniteSets, TLC

\* ------------------------------------------------------------------ bounds
\* Number of text messages handle_message handles in one behaviour.
MaxMessages == 2
\* Number of process crashes / restarts in one behaviour.
MaxCrashes == 1
\* Number of lines of url-forward.txt when the file-queue runner starts.
MaxLines == 2
\* Number of pieces an argument of normalize_url is made of.
MaxTokens == 3
\* The largest message id a range given to parse_url_range starts at.
MaxStart == 2

\* ------------------------------------------------------------ string model
NoneVal == "None"

Range(s) == {s[i] : i \in 1..Len(s)}

\* "?single" as characters (the literal of the regular expression, line 192).
QSINGLE == <<"?", "s", "i", "n", "g", "l", "e">>
\* " - " as characters (the separator of line 189).
DASHSEP == <<" ", "-", " ">>

\* s has p as a substring starting at index i.
IsAt(s, p, i) ==
    /\ i >= 1
    /\ i + Len(p) - 1 <= Len(s)
    /\ \A k \in 1..Len(p) : s[i + k - 1] = p[k]

\* str.strip(): drop the leading and the trailing spaces.
RECURSIVE lstrip(_)
lstrip(s) ==
    IF s # <<>> /\ Head(s) = " " THEN lstrip(Tail(s)) ELSE s

RECURSIVE rstrip(_)
rstrip(s) ==
    IF s # <<>> /\ s[Len(s)] = " " THEN rstrip(SubSeq(s, 1, Len(s) - 1)) ELSE s

strip(s) == rstrip(lstrip(s))

\* url.split(" - ")[0]: the text before the first " - ", or all of it.
split_first(s) ==
    LET hits == {i \in 1..Len(s) : IsAt(s, DASHSEP, i)}
    IN  IF hits = {} THEN s
        ELSE SubSeq(s, 1, (CHOOSE i \in hits : \A j \in hits : i <= j) - 1)

\* Index after the run of characters other than "&" that starts at i ([^&]*).
RECURSIVE skip_non_amp(_, _)
skip_non_amp(s, i) ==
    IF i <= Len(s) /\ s[i] # "&" THEN skip_non_amp(s, i + 1) ELSE i

\* re.sub(r"\?single(?:=[^&]*)?", "", base): leftmost non-overlapping matches,
\* scanned once from left to right; the text left behind is not rescanned.
RECURSIVE sub_single(_, _)
sub_single(s, i) ==
    IF i > Len(s) THEN <<>>
    ELSE IF IsAt(s, QSINGLE, i)
         THEN LET j == i + Len(QSINGLE)
              IN  IF j <= Len(s) /\ s[j] = "="
                  THEN sub_single(s, skip_non_amp(s, j + 1))
                  ELSE sub_single(s, j)
         ELSE <<s[i]>> \o sub_single(s, i + 1)

\* Index after the run of "?" and "&" that starts at i ([?&]*).
RECURSIVE skip_sep(_, _)
skip_sep(s, i) ==
    IF i <= Len(s) /\ s[i] \in {"?", "&"} THEN skip_sep(s, i + 1) ELSE i

\* re.sub(r"[?&]{2,}", "?", base): every maximal run of two or more becomes "?".
RECURSIVE sub_runs(_, _)
sub_runs(s, i) ==
    IF i > Len(s) THEN <<>>
    ELSE LET j == skip_sep(s, i)
         IN  IF j - i >= 2 THEN <<"?">> \o sub_runs(s, j)
             ELSE <<s[i]>> \o sub_runs(s, i + 1)

\* re.sub(r"[?&]$", "", base): one trailing "?" or "&" is removed.
sub_trailing(s) ==
    IF s # <<>> /\ s[Len(s)] \in {"?", "&"} THEN SubSeq(s, 1, Len(s) - 1) ELSE s

normalize_url(url) ==
    IF url = <<>> THEN url
    ELSE sub_trailing(sub_runs(sub_single(strip(split_first(url)), 1), 1))

\* ------------------------------------------------------------------ inputs
\* The texts a user can send.  "a" and "b" stand for two Telegram links; the
\* other two carry the ?single marker once and nested.
U_a == <<"a">>
U_b == <<"b">>
U_a_single == <<"a">> \o QSINGLE
\* "a?sin?singlegle": removing the inner "?single" leaves "a?single".
U_a_nested == <<"a", "?", "s", "i", "n">> \o QSINGLE \o <<"g", "l", "e">>

\* "a?sin?sin?singleglegle": the marker nested twice.
U_a_deep == <<"a", "?", "s", "i", "n">> \o Tail(U_a_nested) \o <<"g", "l", "e">>

\* The messages, one URL per line: a link, the nested marker, and a bulk
\* message of two links of which the first carries the marker.
Messages == {<<U_a>>, <<U_a_nested>>, <<U_a_single, U_b>>}
\* The arguments of /remove and /delete_link_finished.
CommandArgs == {U_a, U_b, U_a_single}
\* A message whose link carries the marker nested twice.
DeepMessages == {<<U_a_deep>>}

\* -------------------------------------------------------------------- state
VARIABLES
    queue_file,          \* data/queue.txt: the lines written, in order
    processing_file,     \* data/processing.txt
    finished_file,       \* data/finished.txt
    failed_file,         \* data/failed.txt: records [url, reason]
    redis_available,     \* the module-level flag set at import
    redis_set,           \* the Redis set tdl:bot:processed_urls
    queue,               \* the asyncio.Queue of jobs
    queue_links,         \* the list mirroring the queue
    current_processing,  \* <<job>> while the worker holds a job, else <<>>
    bulk_batches,        \* batch_id -> [total, completed, failed]
    pc,                  \* the worker's position in queue_worker
    tool_result,         \* <<[returncode, error_occurred]>> once the tool ended
    current_progress,    \* <<[percentage, url]>> once a progress line was read,
                         \* else <<>>; url is the job whose run printed it
    reply,               \* [kind, details]: the reply to the message, if the last
                         \* step was handle_message
    msg_count,           \* messages handled so far
    crash_count,         \* crashes so far
    tracking,            \* which history variables this behaviour records
    cancelled,           \* history: URLs /remove took from the queue
    accepted,            \* history: accepted jobs with no recorded outcome
    startup_files,       \* history: what load_persistent_state read
    claimed_order,       \* history: the first claims since startup
    failed_ids,          \* history: identifiers whose run failed, none waiting
    submitted,           \* history: jobs accepted since startup, not yet claimed
    orphans,             \* subprocesses process_link left without waiting for
                         \* their end; the bot never reads it
    runner_pc,           \* py-tdl-forward.py: off, loop, stopped or crashed
    url_forward,         \* py-tdl-forward.py: the lines of url-forward.txt
    done_url,            \* py-tdl-forward.py: the lines of done-url.txt
    processed_urls,      \* py-tdl-forward.py: the in-memory set of line 205
    runner_redis_available,  \* py-tdl-forward.py: the flag of lines 24-31
    runner_redis_set,    \* the Redis set tdl:processed_urls
    runner_lines,        \* py-tdl-forward.py: <<lines>> between the readlines
                         \* of line 193 and the write of line 195, else <<>>
    pending,             \* history: the lines a clipboard monitor appended
                         \* that were not handed to process_url yet
    summaries,           \* history: the batch summaries sent, in order
    opened,              \* history: the number of batches opened
    item_replies,        \* history: the replies process_link sent for one job
    unnotified,          \* history: identifiers whose success message failed
    told_success,        \* history: identifiers reported as forwarded
    cooldown_due,        \* history: the last run failed, no delay since
    lock_free,           \* history: files accessed outside "with file_lock"
    file_lock,           \* free; handler while remove_command waits for its
                         \* reply inside "with file_lock"; stuck once the
                         \* worker waits for the lock in the same thread
    arg,                 \* the argument of the function under test
    returned             \* the values its calls returned, in order

stores == <<queue_file, processing_file, finished_file, failed_file>>
redis == <<redis_available, redis_set>>
memory == <<queue, queue_links, current_processing, bulk_batches>>
worker == <<pc, tool_result, current_progress>>
counters == <<msg_count, crash_count>>
history == <<tracking, cancelled, accepted, startup_files, claimed_order,
             failed_ids, submitted, orphans>>

\* A history variable is recorded under the specification that reads it and
\* keeps its initial value under the others.
admin_history(old, new) == IF tracking = "admin" THEN new ELSE old
recovery_history(old, new) == IF tracking = "recovery" THEN new ELSE old
retry_history(old, new) == IF tracking = "retry" THEN new ELSE old
fifo_history(old, new) == IF tracking = "fifo" THEN new ELSE old
subprocess_history(old, new) == IF tracking = "subprocess" THEN new ELSE old
batch_history(old, new) == IF tracking = "batch" THEN new ELSE old
reply_history(old, new) == IF tracking = "reply" THEN new ELSE old
notify_history(old, new) == IF tracking = "notify" THEN new ELSE old
persist_history(old, new) == IF tracking = "persist" THEN new ELSE old
cooldown_history(old, new) == IF tracking = "cooldown" THEN new ELSE old
lock_history(old, new) == IF tracking = "lock" THEN new ELSE old
runner == <<runner_pc, url_forward, done_url, processed_urls,
            runner_redis_available, runner_redis_set, runner_lines, pending>>
observed == <<summaries, opened, item_replies, unnotified, told_success,
              cooldown_due, lock_free>>
pure == <<arg, returned>>
vars == <<stores, redis, memory, worker, reply, counters, history, runner,
          observed, pure, file_lock>>

\* ------------------------------------------------------------ file helpers
RECURSIVE strip_all(_)
strip_all(lines) ==
    IF lines = <<>> THEN <<>> ELSE <<strip(Head(lines))>> \o strip_all(Tail(lines))

NonEmpty(l) == l # <<>>

\* read_lines: every line stripped, the empty ones dropped.
read_lines(file) == SelectSeq(strip_all(file), NonEmpty)

\* write_lines(filename, lines): the file holds exactly these lines.
write_lines(lines) == lines

\* Mutant: the file is opened for writing, not for appending.
append_line_truncating(file, line) == <<line>>

\* append_line(filename, line)
append_line(file, line) == Append(file, line)

\* clear_file(filename)
clear_file == <<>>

RECURSIVE without(_, _)
without(lines, u) ==
    IF lines = <<>> THEN <<>>
    ELSE IF Head(lines) = u THEN without(Tail(lines), u)
         ELSE <<Head(lines)>> \o without(Tail(lines), u)

RECURSIVE normalize_all(_)
normalize_all(lines) ==
    IF lines = <<>> THEN <<>>
    ELSE <<normalize_url(Head(lines))>> \o normalize_all(Tail(lines))

Job(url, chat_id, batch_id) == [url |-> url, chat_id |-> chat_id, batch_id |-> batch_id]

\* ------------------------------------------------------------- dedup index
\* is_url_processed_anywhere(url), against the queue file qfile; redis_ok says
\* whether the sismember call returns (TRUE) or raises (FALSE).
is_url_processed_anywhere(url, qfile, redis_ok) ==
    LET normalized_url == normalize_url(url)
        finished == Range(read_lines(finished_file))
        queued == Range(read_lines(qfile))
        processing == Range(read_lines(processing_file))
    IN  IF redis_available /\ redis_ok /\ normalized_url \in redis_set
        THEN "finished"
        ELSE IF normalized_url \in finished THEN "finished"
        ELSE IF normalized_url \in processing THEN "processing"
        ELSE IF normalized_url \in queued THEN "queue"
        ELSE NoneVal

\* The Redis part of mark_url_processed and of sync_redis_from_finished: sadd,
\* or nothing when Redis is not available or the call raises.
redis_sadd(rset, urls, redis_ok) ==
    IF redis_available /\ redis_ok THEN rset \cup urls ELSE rset

\* ------------------------------------------------------------- submission
Reply(kind, details) == [kind |-> kind, details |-> details]
NoReply == Reply(NoneVal, <<>>)

\* Mutant: the job is put at the front of the queue.
handle_url_at_front(st, url, batch_id, redis_ok) ==
    LET normalized == normalize_url(url)
        duplicate_status == is_url_processed_anywhere(normalized, st.queue_file, redis_ok)
        job == Job(normalized, "chat", batch_id)
    IN  IF duplicate_status # NoneVal
        THEN [st EXCEPT !.duplicate_details = Append(@, <<normalized, duplicate_status>>)]
        ELSE [st EXCEPT !.queue = <<job>> \o @,
                        !.queue_links = <<job>> \o @,
                        !.queue_file = append_line(@, normalized),
                        !.added_count = @ + 1]

\* One pass of the loop of handle_message (lines 409-428) for the URL url of a
\* message whose jobs carry batch_id; st holds the queue, queue_links, the
\* queue file, added_count and duplicate_details so far.
handle_url(st, url, batch_id, redis_ok) ==
    LET normalized == normalize_url(url)
        duplicate_status == is_url_processed_anywhere(normalized, st.queue_file, redis_ok)
        job == Job(normalized, "chat", batch_id)
    IN  IF duplicate_status # NoneVal
        THEN [st EXCEPT !.duplicate_details = Append(@, <<normalized, duplicate_status>>)]
        ELSE [st EXCEPT !.queue = Append(@, job),
                        !.queue_links = Append(@, job),
                        !.queue_file = append_line(@, normalized),
                        !.added_count = @ + 1]

RECURSIVE handle_urls(_, _, _, _)
handle_urls(st, valid_urls, batch_id, oks) ==
    IF valid_urls = <<>> THEN st
    ELSE handle_urls(handle_url(st, Head(valid_urls), batch_id, Head(oks)),
                     Tail(valid_urls), batch_id, Tail(oks))

\* The reply of handle_message (lines 430-461).
submission_reply(st, added_count, duplicate_count) ==
    IF added_count = 0
    THEN IF duplicate_count = 1 THEN "duplicate" ELSE "all_duplicates"
    ELSE IF duplicate_count = 0
         THEN IF added_count = 1
              THEN IF current_processing = <<>> /\ Len(st.queue) = 1
                   THEN "being_processed" ELSE "in_queue"
              ELSE "added_bulk"
         ELSE "added_with_skipped"

\* str(uuid.uuid4()), line 398: an id no batch and no job carries; the least
\* such number stands for it.
fresh_batch_id ==
    LET used == DOMAIN bulk_batches
                \cup {queue[i].batch_id : i \in 1..Len(queue)}
                \cup {current_processing[i].batch_id : i \in 1..Len(current_processing)}
    IN  CHOOSE b \in 1..(Cardinality(used) + 1) :
            b \notin used /\ \A c \in 1..(b - 1) : c \in used

submission_batch_parsed(batches, batch_id, valid_urls, added_count) ==
    IF batch_id # 0
    THEN batches @@
         (batch_id :> [total |-> Len(valid_urls), completed |-> 0, failed |-> 0])
    ELSE batches

\* The batch record of one message once handle_message has ended: created
\* with total 0 for a message of more than one URL (lines 394-407), counted
\* up for every job put in the queue (lines 426-428) and deleted when every
\* URL was a duplicate (lines 434-435).
submission_batch(batches, batch_id, valid_urls, added_count) ==
    IF batch_id # 0 /\ added_count > 0
    THEN batches @@
         (batch_id :> [total |-> added_count, completed |-> 0, failed |-> 0])
    ELSE batches

\* handle_message for an authenticated user whose text holds valid_urls; oks[i]
\* says whether the Redis lookup of the i-th URL returns or raises.
handle_message(valid_urls, oks) ==
    /\ pc \in {"idle", "running", "exited", "ended"}
    /\ file_lock = "free"
    /\ msg_count < MaxMessages
    /\ LET batch_id == IF Len(valid_urls) > 1 THEN fresh_batch_id ELSE 0
           st0 == [queue |-> queue, queue_links |-> queue_links,
                   queue_file |-> queue_file, added_count |-> 0,
                   duplicate_details |-> <<>>]
           st == handle_urls(st0, valid_urls, batch_id, oks)
           duplicate_count == Len(st.duplicate_details)
           new_jobs == SubSeq(st.queue, Len(queue) + 1, Len(st.queue))
       IN  /\ queue' = st.queue
           /\ queue_links' = st.queue_links
           /\ queue_file' = st.queue_file
           /\ bulk_batches' =
                 submission_batch(bulk_batches, batch_id, valid_urls, st.added_count)
           /\ reply' = Reply(submission_reply(st, st.added_count, duplicate_count),
                                  st.duplicate_details)
           /\ accepted' = admin_history(accepted, accepted \cup {j.url : j \in Range(new_jobs)})
           /\ cancelled' = admin_history(cancelled, cancelled \ {j.url : j \in Range(new_jobs)})
           /\ failed_ids' = retry_history(failed_ids,
                 failed_ids \ {normalize_url(j.url) : j \in Range(new_jobs)})
           /\ submitted' = fifo_history(submitted, submitted \o new_jobs)
    /\ msg_count' = msg_count + 1
    /\ opened' = batch_history(opened,
          IF DOMAIN bulk_batches' # DOMAIN bulk_batches THEN opened + 1 ELSE opened)
    /\ UNCHANGED <<runner, pure, summaries, item_replies, unnotified,
                   told_success, cooldown_due, lock_free>>
    /\ UNCHANGED <<processing_file, finished_file, failed_file, redis,
                   current_processing, worker, crash_count, tracking, file_lock,
                   startup_files, claimed_order, orphans>>

\* The outcomes of the Redis calls of one handler: all of them return when
\* Redis is not in use.
RedisOutcomes(n) ==
    IF redis_available THEN [1..n -> BOOLEAN] ELSE {[i \in 1..n |-> TRUE]}

HandleMessage ==
    \E valid_urls \in Messages : \E oks \in RedisOutcomes(Len(valid_urls)) :
        handle_message(valid_urls, oks)

HandleDeepMessage ==
    \E valid_urls \in DeepMessages : \E oks \in RedisOutcomes(Len(valid_urls)) :
        handle_message(valid_urls, oks)

\* ---------------------------------------------------------------- recovery
RECURSIVE recovered_jobs(_)
recovered_jobs(lines) ==
    IF lines = <<>> THEN <<>>
    ELSE <<Job(normalize_url(Head(lines)), NoneVal, 0)>> \o recovered_jobs(Tail(lines))

\* Mutant: the lines of queue.txt are enqueued before the in-flight line.
load_persistent_state_queue_first(pfile, qfile) ==
    LET processing_lines == read_lines(pfile)
        queue_lines == read_lines(qfile)
    IN  recovered_jobs(queue_lines)
        \o (IF processing_lines # <<>>
            THEN <<Job(normalize_url(processing_lines[1]), NoneVal, 0)>> ELSE <<>>)

\* load_persistent_state, lines 323-335: the jobs put into the queue, from the
\* contents of processing.txt and queue.txt.
load_persistent_state(pfile, qfile) ==
    LET processing_lines == read_lines(pfile)
        queue_lines == read_lines(qfile)
    IN  (IF processing_lines # <<>>
         THEN <<Job(normalize_url(processing_lines[1]), NoneVal, 0)>> ELSE <<>>)
        \o recovered_jobs(queue_lines)

\* ------------------------------------------------------------------ worker
\* queue_links with the first entry for url deleted (lines 476-479).
RECURSIVE remove_first(_, _)
remove_first(links, url) ==
    IF links = <<>> THEN <<>>
    ELSE IF Head(links).url = url THEN Tail(links)
         ELSE <<Head(links)>> \o remove_first(Tail(links), url)

\* Mutant: the URL is appended to processing.txt instead of replacing it.
claim_processing_appends(file, url) ==
    LET processing_lines == read_lines(file)
    IN  IF processing_lines = <<>> \/ processing_lines[1] # normalize_url(url)
        THEN append_line(file, normalize_url(url))
        ELSE file

\* Lines 481-484: processing.txt is written unless its first line is the URL.
claim_processing(file, url) ==
    LET processing_lines == read_lines(file)
    IN  IF processing_lines = <<>> \/ processing_lines[1] # normalize_url(url)
        THEN write_lines(<<normalize_url(url)>>)
        ELSE file

\* Lines 486-489: queue.txt is rewritten without the lines equal to the URL.
claim_queue(file, url) ==
    write_lines(without(read_lines(file), normalize_url(url)))

\* jobs with the first entry equal to job deleted.
RECURSIVE without_first(_, _)
without_first(jobs, job) ==
    IF jobs = <<>> THEN <<>>
    ELSE IF Head(jobs) = job THEN Tail(jobs)
         ELSE <<Head(jobs)>> \o without_first(Tail(jobs), job)

\* queue_worker, lines 466-484: the job is taken and processing.txt written.
WorkerClaim ==
    /\ pc = "idle"
    /\ file_lock = "free"
    /\ reply' = NoReply
    /\ queue # <<>>
    /\ LET job == Head(queue)
       IN  /\ queue' = Tail(queue)
           /\ current_processing' = <<job>>
           /\ queue_links' = remove_first(queue_links, job.url)
           /\ processing_file' = claim_processing(processing_file, job.url)
           /\ claimed_order' =
                 IF Len(claimed_order) < Len(load_persistent_state(startup_files.processing,
                                                                    startup_files.queue))
                 THEN recovery_history(claimed_order, Append(claimed_order, job.url))
                 ELSE claimed_order
           /\ submitted' = fifo_history(submitted, without_first(submitted, job))
    /\ pc' = "claiming"
    /\ current_progress' = <<>>
    /\ cooldown_due' = cooldown_history(cooldown_due, FALSE)
    /\ UNCHANGED <<runner, pure, summaries, opened, item_replies, unnotified,
                   told_success, lock_free>>
    /\ UNCHANGED <<queue_file, finished_file, failed_file, redis, bulk_batches,
                   tool_result, counters, tracking, file_lock, cancelled, accepted,
                   startup_files, failed_ids, orphans>>

\* queue_worker, lines 486-489, then process_link up to the start of the tool.
\* The read and the rewrite of queue.txt are outside "with file_lock", which
\* ends at line 484.
WorkerDequeue ==
    /\ pc = "claiming"
    /\ reply' = NoReply
    /\ queue_file' = claim_queue(queue_file, current_processing[1].url)
    /\ pc' = "running"
    /\ lock_free' = lock_history(lock_free, lock_free \cup {"queue.txt"})
    /\ UNCHANGED <<runner, pure, summaries, opened, item_replies, unnotified,
                   told_success, cooldown_due>>
    /\ UNCHANGED <<processing_file, finished_file, failed_file, redis, memory,
                   tool_result, current_progress, counters, history, file_lock>>

\* Mutant: the progress snapshot is kept when the job is let go.
worker_idle_keeps_progress ==
    /\ current_processing' = <<>>
    /\ tool_result' = <<>>
    /\ pc' = "idle"
    /\ UNCHANGED current_progress

\* queue_worker, lines 496-498: back to queue.get().
worker_idle ==
    /\ current_processing' = <<>>
    /\ current_progress' = <<>>
    /\ tool_result' = <<>>
    /\ pc' = "idle"

\* process_link, lines 566-571: starting the tool or reading its output raised.
\* Whether the two notifications go out or raise, no store changes.  When the
\* exception came from reading the output (readline, line 520), the
\* subprocess has been started and nothing waits for it or ends it.
ToolRaises ==
    /\ pc = "running"
    /\ reply' = NoReply
    /\ worker_idle
    /\ \E started \in BOOLEAN :
          orphans' = IF started THEN subprocess_history(orphans, orphans + 1)
                     ELSE orphans
    /\ item_replies' = reply_history(item_replies,
          IF current_processing[1].chat_id # NoneVal
          THEN Append(item_replies, [batch_id |-> current_processing[1].batch_id,
                                     kind |-> "failed_to_run"])
          ELSE item_replies)
    /\ cooldown_due' = cooldown_history(cooldown_due, TRUE)
    /\ UNCHANGED <<runner, pure, summaries, opened, unnotified, told_success,
                   lock_free>>
    /\ UNCHANGED <<stores, redis, queue, queue_links, bulk_batches, counters,
                   tracking, file_lock, cancelled, accepted, startup_files, claimed_order,
                   failed_ids, submitted>>

\* The percentages a progress line of the tool can carry.
Percentages == {"3.0", "100"}

\* process_link, lines 519-562: a line of the tool's output carries a
\* percentage, and the snapshot is replaced.
ToolProgress ==
    /\ pc = "running"
    /\ reply' = NoReply
    /\ \E percentage \in Percentages :
          current_progress' = <<[percentage |-> percentage,
                                 url |-> current_processing[1].url]>>
    /\ UNCHANGED <<pc, tool_result>>
    /\ UNCHANGED <<runner, observed, pure>>
    /\ UNCHANGED <<stores, redis, memory, counters, history, file_lock>>

\* A subprocess left behind comes to its end.
OrphanExits ==
    /\ orphans > 0
    /\ orphans' = orphans - 1
    /\ reply' = NoReply
    /\ UNCHANGED <<runner, observed, pure>>
    /\ UNCHANGED <<stores, redis, memory, worker, counters, tracking, file_lock, cancelled,
                   accepted, startup_files, claimed_order, failed_ids, submitted>>

\* process_link, lines 509-564: the tool ran to its end.
ToolExits ==
    /\ pc = "running"
    /\ reply' = NoReply
    /\ \E returncode \in {0, 1} : \E error_occurred \in BOOLEAN :
          tool_result' = <<[returncode |-> returncode, error_occurred |-> error_occurred]>>
    /\ pc' = "exited"
    /\ UNCHANGED <<runner, observed, pure>>
    /\ UNCHANGED <<stores, redis, memory, current_progress, counters, history, file_lock>>

\* The markers looked for in the tool's output: "Error" (line 524 of the bot,
\* line 124 of py-tdl-forward.py), "may be deleted" and "invalid message"
\* (lines 126 and 129 of py-tdl-forward.py).
ERROR == <<"E", "r", "r", "o", "r">>
MAY_BE_DELETED ==
    <<"m", "a", "y", " ", "b", "e", " ", "d", "e", "l", "e", "t", "e", "d">>
INVALID_MESSAGE ==
    <<"i", "n", "v", "a", "l", "i", "d", " ", "m", "e", "s", "s", "a", "g", "e">>

\* p in s (Python's substring test).
Contains(s, p) == \E i \in 1..(Len(s) + 1) : IsAt(s, p, i)

\* What the tool can print, line by line: nothing of interest; the invalid
\* marker alone; the error line and the deleted marker in both orders; an
\* error line that carries the invalid marker.
ToolOutputs ==
    { <<>>,
      <<INVALID_MESSAGE>>,
      <<ERROR, MAY_BE_DELETED>>,
      <<MAY_BE_DELETED, ERROR>>,
      <<ERROR \o <<":", " ">> \o INVALID_MESSAGE>> }

\* The loop of lines 519-527 over the lines read: error_occurred at its end.
error_in(output) == \E i \in 1..Len(output) : Contains(output[i], ERROR)

\* process_link, lines 509-564, with the lines the tool printed.
ToolExitsOutput ==
    /\ pc = "running"
    /\ reply' = NoReply
    /\ \E returncode \in {0, 1} : \E output \in ToolOutputs :
          tool_result' = <<[returncode |-> returncode,
                            error_occurred |-> error_in(output),
                            output |-> output]>>
    /\ pc' = "exited"
    /\ UNCHANGED <<runner, observed, pure>>
    /\ UNCHANGED <<stores, redis, memory, current_progress, counters, history, file_lock>>

\* Line 623.
succeeded == tool_result[1].returncode = 0 /\ ~tool_result[1].error_occurred

in_batch(job) == job.batch_id # 0 /\ job.batch_id \in DOMAIN bulk_batches

\* Mutant: the batch is deleted when one outcome is still to come.
record_outcome_early(batches, batch_id, field) ==
    LET counted == [batches EXCEPT ![batch_id][field] = @ + 1]
        batch_info == counted[batch_id]
    IN  IF batch_info.completed + batch_info.failed + 1 >= batch_info.total
        THEN [b \in DOMAIN batches \ {batch_id} |-> batches[b]]
        ELSE counted

\* Mutant: the batch is deleted once completed + failed exceeds total.
record_outcome_late(batches, batch_id, field) ==
    LET counted == [batches EXCEPT ![batch_id][field] = @ + 1]
        batch_info == counted[batch_id]
    IN  IF batch_info.completed + batch_info.failed > batch_info.total
        THEN [b \in DOMAIN batches \ {batch_id} |-> batches[b]]
        ELSE counted

\* Lines 629-657 and 682-709: the batch counts one more outcome and is deleted
\* once completed + failed >= total.
record_outcome(batches, batch_id, field) ==
    LET counted == [batches EXCEPT ![batch_id][field] = @ + 1]
        batch_info == counted[batch_id]
    IN  IF batch_info.completed + batch_info.failed >= batch_info.total
        THEN [b \in DOMAIN batches \ {batch_id} |-> batches[b]]
        ELSE counted

\* Lines 632-649 and 686-703: the summary sent for the batch with one more
\* outcome counted, if that completes it.  The summary is built, and
\* send_message called, once; a send that raises is logged (lines 644-647).
batch_summary(batches, batch_id, field) ==
    LET batch_info == [batches EXCEPT ![batch_id][field] = @ + 1][batch_id]
    IN  IF batch_info.completed + batch_info.failed >= batch_info.total
        THEN <<[completed |-> batch_info.completed, failed |-> batch_info.failed,
                total |-> batch_info.total]>>
        ELSE <<>>

\* Mutant: the job's URL is appended as it is, not normalized.
mark_finished_raw(file, url) == append_line(file, url)

\* mark_url_processed, lines 293-305: the Redis update and the append to
\* finished.txt.
mark_finished(file, url) == append_line(file, normalize_url(url))

\* process_link, lines 623-678, success.  sent says whether the success
\* message of a single link went out; for a single link it did not reach, the
\* function returns before mark_url_processed (line 671).  write_ok says
\* whether append_line of line 305 returns or raises (OSError): when it
\* raises, the sadd of line 298 is behind, processing.txt is not cleared and
\* the exception ends process_link (queue_worker, lines 492-495).
process_link_success(write_ok) ==
    /\ pc = "exited"
    /\ reply' = NoReply
    /\ succeeded
    /\ LET job == current_processing[1]
           single == ~in_batch(job) /\ job.chat_id # NoneVal
           summary == IF in_batch(job)
                      THEN batch_summary(bulk_batches, job.batch_id, "completed")
                      ELSE <<>>
       IN  \E sent \in BOOLEAN : \E redis_ok \in RedisOutcomes(1) :
             /\ file_lock = "free" \/ (file_lock = "handler" /\ single /\ ~sent)
             /\ bulk_batches' = IF in_batch(job)
                                THEN record_outcome(bulk_batches, job.batch_id, "completed")
                                ELSE bulk_batches
             /\ summaries' = batch_history(summaries, summaries \o summary)
             /\ item_replies' = reply_history(item_replies,
                   IF single
                   THEN Append(item_replies, [batch_id |-> job.batch_id,
                                              kind |-> "success"])
                   ELSE item_replies)
             /\ unnotified' = notify_history(unnotified,
                   IF single /\ ~sent
                   THEN unnotified \cup {normalize_url(job.url)}
                   ELSE unnotified)
             /\ told_success' = persist_history(told_success,
                   IF (single /\ sent) \/ summary # <<>>
                   THEN told_success \cup {normalize_url(job.url)}
                   ELSE told_success)
             /\ IF single /\ ~sent
                THEN /\ worker_idle
                     /\ UNCHANGED <<finished_file, redis_set, accepted>>
                ELSE IF write_ok
                THEN /\ redis_set' = redis_sadd(redis_set, {normalize_url(job.url)}, redis_ok[1])
                     /\ finished_file' = mark_finished(finished_file, job.url)
                     /\ accepted' = admin_history(accepted,
                           {u \in accepted : normalize_url(u) # normalize_url(job.url)})
                     /\ pc' = "marking"
                     /\ UNCHANGED <<current_processing, tool_result, current_progress>>
                ELSE /\ redis_set' = redis_sadd(redis_set, {normalize_url(job.url)}, redis_ok[1])
                     /\ worker_idle
                     /\ UNCHANGED <<finished_file, accepted>>
    /\ UNCHANGED <<runner, pure, opened, cooldown_due, lock_free>>
    /\ UNCHANGED <<queue_file, processing_file, failed_file, redis_available,
                   queue, queue_links, counters, tracking, file_lock, cancelled,
                   startup_files, claimed_order, failed_ids, submitted, orphans>>

ProcessLinkSuccess == process_link_success(TRUE)

\* The same, on a disk that takes no more writes.
ProcessLinkWriteFails == process_link_success(FALSE)

\* mark_url_processed, line 306, and the return to queue_worker.
WorkerClear ==
    /\ pc = "marking"
    /\ reply' = NoReply
    /\ processing_file' = clear_file
    /\ worker_idle
    /\ UNCHANGED <<runner, observed, pure>>
    /\ UNCHANGED <<queue_file, finished_file, failed_file, redis, queue,
                   queue_links, bulk_batches, counters, history, file_lock>>

\* append_failed, lines 52-62: the bot passes no reason.
append_failed(file, url) ==
    append_line(file, [url |-> normalize_url(url), reason |-> NoneVal])

\* process_link, lines 679-720, failure.  For a single link with a chat the
\* failure message is sent outside any try (line 714): when it raises, the
\* exception leaves process_link before append_failed.
ProcessLinkFailure ==
    /\ pc = "exited"
    /\ reply' = NoReply
    /\ ~succeeded
    /\ LET job == current_processing[1]
       IN  \E sent \in BOOLEAN :
             /\ \/ file_lock = "free"
                \/ file_lock = "handler" /\ ~in_batch(job) /\ job.chat_id # NoneVal /\ ~sent
             /\ bulk_batches' = IF in_batch(job)
                                THEN record_outcome(bulk_batches, job.batch_id, "failed")
                                ELSE bulk_batches
             /\ IF ~in_batch(job) /\ job.chat_id # NoneVal /\ ~sent
                THEN UNCHANGED <<failed_file, accepted>>
                ELSE /\ failed_file' = append_failed(failed_file, job.url)
                     /\ accepted' = admin_history(accepted,
                           {u \in accepted : normalize_url(u) # normalize_url(job.url)})
             /\ failed_ids' = retry_history(failed_ids,
                   IF \E i \in 1..Len(queue) :
                         normalize_url(queue[i].url) = normalize_url(job.url)
                   THEN failed_ids
                   ELSE failed_ids \cup {normalize_url(job.url)})
    /\ worker_idle
    /\ summaries' = batch_history(summaries,
          IF in_batch(current_processing[1])
          THEN summaries \o batch_summary(bulk_batches,
                                          current_processing[1].batch_id, "failed")
          ELSE summaries)
    /\ item_replies' = reply_history(item_replies,
          IF ~in_batch(current_processing[1])
             /\ current_processing[1].chat_id # NoneVal
          THEN Append(item_replies, [batch_id |-> current_processing[1].batch_id,
                                     kind |-> "failure"])
          ELSE item_replies)
    /\ cooldown_due' = cooldown_history(cooldown_due, TRUE)
    /\ UNCHANGED <<runner, pure, opened, unnotified, told_success, lock_free>>
    /\ UNCHANGED <<queue_file, processing_file, finished_file, redis, queue,
                   queue_links, counters, tracking, file_lock, cancelled, startup_files,
                   claimed_order, submitted, orphans>>

\* ---------------------------------------------------------------- commands
\* The application handles one update at a time: no handler starts while
\* another waits for its reply.
HandlerCanRun == pc \in {"idle", "running", "exited", "ended"} /\ file_lock = "free"

\* remove_command, lines 945-953.
remove_command(url_to_remove) ==
    /\ HandlerCanRun
    /\ LET queue_list == read_lines(queue_file)
       IN  IF url_to_remove \in Range(queue_list)
           THEN /\ queue_file' = write_lines(without(queue_list, url_to_remove))
                /\ reply' = NoReply
                /\ cancelled' = IF \E i \in 1..Len(queue) : queue[i].url = url_to_remove
                                THEN admin_history(cancelled, cancelled \cup {url_to_remove})
                                ELSE cancelled
                /\ accepted' = admin_history(accepted, accepted \ {url_to_remove})
           ELSE /\ reply' = NoReply
                /\ UNCHANGED <<queue_file, cancelled, accepted>>
    /\ UNCHANGED <<runner, observed, pure>>
    /\ UNCHANGED <<processing_file, finished_file, failed_file, redis, memory,
                   worker, counters, tracking, startup_files, claimed_order,
                   failed_ids, submitted, orphans>>

\* The reply of line 951 or 953 returns before the worker is scheduled.
RemoveCommand ==
    \E url_to_remove \in CommandArgs :
        remove_command(url_to_remove) /\ UNCHANGED file_lock

\* remove_command up to its reply: reply_text is awaited inside
\* "with file_lock" (lines 946-953), so the handler is suspended holding the
\* lock and the event loop runs what else is ready.
RemoveCommandAwaits ==
    \E url_to_remove \in CommandArgs :
        remove_command(url_to_remove) /\ file_lock' = "handler"

\* The reply returns or raises: the with block is left.
RemoveCommandReplied ==
    /\ file_lock = "handler"
    /\ file_lock' = "free"
    /\ reply' = NoReply
    /\ UNCHANGED <<runner, observed, pure>>
    /\ UNCHANGED <<stores, redis, memory, worker, counters, history>>

\* The worker reaches "with file_lock" (line 481 at a claim, line 304 in
\* mark_url_processed, line 61 in append_failed) while the suspended handler
\* holds the lock.  file_lock is a threading.Lock and the worker runs in the
\* event loop's thread: acquire blocks the thread, and the handler that would
\* release the lock runs in the same thread.
WorkerBlocks ==
    /\ file_lock = "handler"
    /\ (pc = "idle" /\ queue # <<>>) \/ pc = "exited"
    /\ file_lock' = "stuck"
    /\ reply' = NoReply
    /\ UNCHANGED <<runner, observed, pure>>
    /\ UNCHANGED <<stores, redis, memory, worker, counters, history>>

\* queue_worker, lines 466-489, on a file system that refuses the write:
\* open(filename, 'w') in write_lines raises OSError at line 484 (or 489),
\* outside the try of lines 490-495, and the exception ends the task that
\* create_task started (line 1049).
WorkerClaimRaises ==
    /\ pc = "idle"
    /\ file_lock = "free"
    /\ queue # <<>>
    /\ queue' = Tail(queue)
    /\ current_processing' = <<Head(queue)>>
    /\ queue_links' = remove_first(queue_links, Head(queue).url)
    /\ current_progress' = <<>>
    /\ pc' = "ended"
    /\ reply' = NoReply
    /\ UNCHANGED <<runner, observed, pure, file_lock>>
    /\ UNCHANGED <<stores, redis, bulk_batches, tool_result, counters, history>>

\* clear_command, lines 961-963.
ClearCommand ==
    /\ HandlerCanRun
    /\ queue_file' = clear_file
    /\ reply' = NoReply
    /\ accepted' = admin_history(accepted, accepted \ Range(read_lines(queue_file)))
    /\ UNCHANGED <<runner, observed, pure>>
    /\ UNCHANGED <<processing_file, finished_file, failed_file, redis, memory,
                   worker, counters, tracking, file_lock, cancelled, startup_files,
                   claimed_order, failed_ids, submitted, orphans>>

\* empty_finished_command, lines 972-975.
EmptyFinishedCommand ==
    /\ HandlerCanRun
    /\ finished_file' = clear_file
    /\ reply' = NoReply
    /\ UNCHANGED <<runner, observed, pure>>
    /\ UNCHANGED <<queue_file, processing_file, failed_file, redis, memory,
                   worker, counters, history, file_lock>>

\* delete_link_finished_command, lines 1004-1013.
delete_link_finished_command(url_to_delete) ==
    /\ HandlerCanRun
    /\ LET normalized_url == normalize_url(url_to_delete)
           finished_list == read_lines(finished_file)
       IN  IF normalized_url \in Range(finished_list)
           THEN /\ finished_file' = write_lines(without(finished_list, normalized_url))
                /\ reply' = NoReply
           ELSE /\ reply' = NoReply
                /\ UNCHANGED finished_file
    /\ UNCHANGED <<runner, observed, pure>>
    /\ UNCHANGED <<queue_file, processing_file, failed_file, redis, memory,
                   worker, counters, history, file_lock>>

DeleteLinkFinishedCommand ==
    \E url_to_delete \in CommandArgs : delete_link_finished_command(url_to_delete)

\* "http", looked for in every line of finished.txt (line 921).
HTTP == <<"h", "t", "t", "p">>

\* Lines 921-925: the line from its first "http" on, or the whole line.
url_part(line) ==
    LET hits == {i \in 1..Len(line) : IsAt(line, HTTP, i)}
    IN  IF hits = {} THEN line
        ELSE SubSeq(line, CHOOSE i \in hits : \A j \in hits : i <= j, Len(line))

\* Lines 917-928: the lines normalized, each kept where it first occurs.
RECURSIVE normalized_unique(_, _)
normalized_unique(lines, seen) ==
    IF lines = <<>> THEN <<>>
    ELSE LET norm == normalize_url(url_part(Head(lines)))
         IN  IF norm \in seen THEN normalized_unique(Tail(lines), seen)
             ELSE <<norm>> \o normalized_unique(Tail(lines), seen \cup {norm})

\* sanitize_finished_command, lines 910-934.
SanitizeFinishedCommand ==
    /\ HandlerCanRun
    /\ LET lines == read_lines(finished_file)
       IN  IF lines = <<>>
           THEN UNCHANGED finished_file
           ELSE finished_file' = write_lines(normalized_unique(lines, {}))
    /\ reply' = NoReply
    /\ UNCHANGED <<runner, observed, pure>>
    /\ UNCHANGED <<queue_file, processing_file, failed_file, redis, memory,
                   worker, counters, history, file_lock>>

\* status_command, lines 799-809: the reply, from processing.txt and the
\* progress snapshot.
status_command ==
    LET processing == read_lines(processing_file)
    IN  IF processing # <<>>
        THEN <<"Currently processing", processing[1]>>
             \o (IF current_progress # <<>>
                 THEN <<"Progress", current_progress[1].percentage>>
                 ELSE <<>>)
        ELSE <<"No link under process.">>

\* ------------------------------------------------------------------- crash
\* sync_redis_from_finished, lines 139-153: the lines of finished.txt are added
\* one by one; an exception ends the loop, so a prefix of k lines is added.
sync_redis_from_finished(available, rset, file, k) ==
    IF available
    THEN rset \cup {normalize_url(read_lines(file)[i]) : i \in 1..k}
    ELSE rset

\* The process dies at any point and is started again: the module is imported
\* (the Redis connection is tried, the in-memory state is empty) and main()
\* calls load_persistent_state.  The files and the Redis set survive.
CrashRestart(available) ==
    /\ crash_count < MaxCrashes
    /\ crash_count' = crash_count + 1
    /\ redis_available' = available
    /\ \E k \in 0..Len(read_lines(finished_file)) :
          redis_set' = sync_redis_from_finished(available, redis_set, finished_file, k)
    /\ queue' = load_persistent_state(processing_file, queue_file)
    /\ queue_links' = queue'
    /\ current_processing' = <<>>
    /\ bulk_batches' = <<>>
    /\ pc' = "idle"
    /\ tool_result' = <<>>
    /\ current_progress' = <<>>
    /\ reply' = NoReply
    /\ startup_files' = recovery_history(startup_files,
                            [processing |-> processing_file, queue |-> queue_file])
    /\ claimed_order' = <<>>
    /\ submitted' = <<>>
    /\ unnotified' = {}
    /\ cooldown_due' = FALSE
    /\ UNCHANGED <<runner, pure, summaries, opened, item_replies, told_success,
                   lock_free>>
    /\ file_lock' = "free"
    /\ UNCHANGED <<stores, msg_count, tracking, cancelled, accepted, failed_ids,
                   orphans>>

\* The Redis server answers the ping of line 34 or does not.
Crash == \E available \in BOOLEAN : CrashRestart(available)

\* No Redis server is installed: the ping fails at every start.
CrashNoRedis == CrashRestart(FALSE)

\* ------------------------------------------------------- file-queue runner
\* src/py-tdl-forward.py, a program of its own: it shares no file and no Redis
\* key with the bot.  It is synchronous, so one pass of its loop is one step.

\* str.replace("?single", ""): every occurrence found from left to right.
RECURSIVE replace_single(_, _)
replace_single(s, i) ==
    IF i > Len(s) THEN <<>>
    ELSE IF IsAt(s, QSINGLE, i) THEN replace_single(s, i + Len(QSINGLE))
         ELSE <<s[i]>> \o replace_single(s, i + 1)

\* normalize_url of py-tdl-forward.py, lines 33-38.
runner_normalize_url(url) == replace_single(strip(split_first(url)), 1)

\* The line written to done-url.txt (line 169); "t" stands for the timestamp.
done_line(url) == url \o DASHSEP \o <<"t">>

\* The URLs found in url-forward.txt and the contents of the two files when
\* the script is started.
RunnerUrls == {U_a, U_a_single, U_b}
UrlFiles == UNION {[1..n -> RunnerUrls] : n \in 0..MaxLines}
\* The same with empty lines: a monitor appends the clipboard as it is
\* (mac-put-into-url-forward.py, line 87), and a text copied with an empty
\* line between two links leaves that line in url-forward.txt.
LineFiles == UNION {[1..n -> RunnerUrls \cup {<<>>}] : n \in 0..MaxLines}
DoneFiles == {<<>>, <<done_line(U_a)>>}

\* get_processed_urls, lines 59-74.
get_processed_urls(file) ==
    {runner_normalize_url(file[i]) : i \in {k \in 1..Len(file) : strip(file[k]) # <<>>}}

\* The script is started (lines 24-31 and 203-210).  sync_redis_from_file
\* (lines 40-57) adds the lines of done-url.txt one by one and catches
\* FileNotFoundError only: when a Redis call raises after k lines, the
\* exception ends the script.
runner_start(files) ==
    /\ runner_pc = "off"
    /\ UNCHANGED <<runner_lines, pending>>
    /\ \E content \in files : \E done \in DoneFiles : \E available \in BOOLEAN :
          /\ url_forward' = content
          /\ done_url' = done
          /\ runner_redis_available' = available
          /\ processed_urls' = get_processed_urls(done)
          /\ IF available
             THEN \E k \in 0..Len(done) :
                     /\ runner_redis_set' = runner_redis_set
                            \cup {runner_normalize_url(done[i]) : i \in 1..k}
                     /\ runner_pc' = IF k = Len(done) THEN "loop" ELSE "crashed"
             ELSE /\ runner_redis_set' = runner_redis_set
                  /\ runner_pc' = "loop"
    /\ UNCHANGED <<stores, redis, memory, worker, reply, counters, history, file_lock,
                   observed, pure>>

RunnerStart == runner_start(UrlFiles)

\* The script is started on a file that can hold empty lines.
RunnerStartLines == runner_start(LineFiles)

\* The markers of lines 132 and 135.
CHAT_ID_INVALID ==
    <<"C", "H", "A", "T", "_", "I", "D", "_", "I", "N", "V", "A", "L", "I", "D">>
USERNAME_INVALID ==
    <<"U", "S", "E", "R", "N", "A", "M", "E", "_", "I", "N", "V", "A", "L", "I", "D">>

\* Some line of the output contains the marker (the flags of lines 122-137).
seen(output, marker) == \E i \in 1..Len(output) : Contains(output[i], marker)

\* process_url, lines 142-178: the branch taken for a run.
runner_outcome(returncode, output) ==
    IF seen(output, INVALID_MESSAGE) \/ seen(output, CHAT_ID_INVALID)
       \/ seen(output, USERNAME_INVALID)
    THEN "invalid"
    ELSE IF seen(output, MAY_BE_DELETED) THEN "deleted"
    ELSE IF returncode = 0 /\ ~seen(output, ERROR) THEN "success"
    ELSE "error"

\* is_url_processed, lines 76-82, when the Redis call returns.
is_url_processed(url) ==
    IF runner_redis_available
    THEN runner_normalize_url(url) \in runner_redis_set
    ELSE runner_normalize_url(url) \in processed_urls

\* process_urls, runner_lines 191-195: the head line is removed.  between says
\* whether another process can write the file between the readlines of line
\* 193 and the write of line 195.
remove_head(between) ==
    IF between
    THEN /\ runner_lines' = <<url_forward>>
         /\ runner_pc' = "between"
         /\ UNCHANGED url_forward
    ELSE /\ url_forward' = Tail(url_forward)
         /\ UNCHANGED <<runner_pc, runner_lines>>

\* One pass of the main loop (lines 212-213): process_urls, lines 180-200, and
\* process_url, lines 93-178.  lookup_ok and sadd_ok say whether the Redis
\* calls of lines 80 and 88 return or raise; neither call is inside a try, and
\* process_urls catches FileNotFoundError only, so the exception ends the
\* script.
process_urls(between) ==
    /\ runner_pc = "loop"
    /\ IF url_forward = <<>> \/ strip(Head(url_forward)) = <<>>
       THEN /\ runner_pc' = "stopped"
            /\ UNCHANGED <<url_forward, done_url, processed_urls, runner_redis_set,
                           runner_lines, pending>>
       ELSE LET url == strip(Head(url_forward))
            IN  \E lookup_ok \in BOOLEAN : \E sadd_ok \in BOOLEAN :
                \E returncode \in {0, 1} : \E output \in ToolOutputs :
                  IF runner_redis_available /\ ~lookup_ok
                  THEN /\ runner_pc' = "crashed"
                       /\ UNCHANGED <<url_forward, done_url, processed_urls,
                                      runner_redis_set, runner_lines, pending>>
                  ELSE IF is_url_processed(url)
                  THEN /\ remove_head(between)
                       /\ pending' = pending \ {url}
                       /\ UNCHANGED <<done_url, processed_urls, runner_redis_set>>
                  ELSE IF runner_outcome(returncode, output) \in {"invalid", "deleted"}
                  THEN /\ remove_head(between)
                       /\ pending' = pending \ {url}
                       /\ UNCHANGED <<done_url, processed_urls, runner_redis_set>>
                  ELSE IF runner_outcome(returncode, output) = "success"
                  THEN /\ done_url' = Append(done_url, done_line(url))
                       /\ IF runner_redis_available /\ ~sadd_ok
                          THEN /\ runner_pc' = "crashed"
                               /\ pending' = pending \ {url}
                               /\ UNCHANGED <<url_forward, processed_urls,
                                              runner_redis_set, runner_lines>>
                          ELSE /\ runner_redis_set' =
                                     IF runner_redis_available
                                     THEN runner_redis_set \cup {runner_normalize_url(url)}
                                     ELSE runner_redis_set
                               /\ processed_urls' =
                                     processed_urls \cup {runner_normalize_url(url)}
                               /\ remove_head(between)
                               /\ pending' = pending \ {url}
                  ELSE /\ pending' = pending \ {url}
                       /\ UNCHANGED <<runner_pc, url_forward, runner_lines, done_url,
                                      processed_urls, runner_redis_set>>
    /\ UNCHANGED runner_redis_available
    /\ UNCHANGED <<stores, redis, memory, worker, reply, counters, history, file_lock,
                   observed, pure>>

\* One pass in which no other process writes url-forward.txt between lines
\* 192 and 195.
RunnerStep == process_urls(FALSE)

\* One pass up to the readlines of line 193: the lines are read, the file is
\* not written yet.
RunnerReads == process_urls(TRUE)

\* Lines 194-195: the file is opened with "w" and the lines read at line
\* 193, but the first, are written.
RunnerWrites ==
    /\ runner_pc = "between"
    /\ url_forward' = Tail(runner_lines[1])
    /\ runner_lines' = <<>>
    /\ runner_pc' = "loop"
    /\ UNCHANGED <<done_url, processed_urls, runner_redis_available,
                   runner_redis_set, pending>>
    /\ UNCHANGED <<stores, redis, memory, worker, reply, counters, history, file_lock,
                   observed, pure>>

\* The clipboard monitor, a process of its own, finds a new link and appends
\* it (mac-put-into-url-forward.py, runner_lines 83-88;
\* termux-put-into-url-forward.py, runner_lines 66-71).  The file holds at most
\* MaxLines + 1 lines in the model.
ProducerAppends ==
    /\ runner_pc \in {"loop", "between"}
    /\ Len(url_forward) <= MaxLines
    /\ \E current_clipboard \in RunnerUrls :
          /\ url_forward' = Append(url_forward, current_clipboard)
          /\ pending' = pending \cup {current_clipboard}
    /\ UNCHANGED <<runner_pc, done_url, processed_urls, runner_redis_available,
                   runner_redis_set, runner_lines>>
    /\ UNCHANGED <<stores, redis, memory, worker, reply, counters, history, file_lock,
                   observed, pure>>

\* ------------------------------------------------------ functions on text
\* The pieces the arguments of normalize_url are made of: the marker, its
\* two halves, and the characters the regular expressions of lines 192-195
\* and the split of line 189 look for.
NormalizeTokens ==
    { QSINGLE, <<"?", "s", "i", "n">>, <<"g", "l", "e">>,
      <<"=">>, <<"&">>, <<"?">>, <<" ">>, DASHSEP }

RECURSIVE Concat(_)
Concat(pieces) ==
    IF pieces = <<>> THEN <<>> ELSE Head(pieces) \o Concat(Tail(pieces))

NormalizeArgs ==
    {Concat(pieces) : pieces \in UNION {[1..n -> NormalizeTokens] : n \in 0..MaxTokens}}

\* normalize_url is called on the argument, then on what it returned.
NormalizeCall ==
    /\ tracking = "normalize_url"
    /\ Len(returned) < 2
    /\ returned' = Append(returned,
          normalize_url(IF returned = <<>> THEN arg ELSE returned[Len(returned)]))
    /\ UNCHANGED <<stores, redis, memory, worker, reply, counters, history, file_lock,
                   runner, observed, arg>>

\* Whitespace (\s) in the texts of the model.
WHITESPACE == {" ", "\t"}

RECURSIVE skip_space(_, _)
skip_space(s, i) ==
    IF i <= Len(s) /\ s[i] \in WHITESPACE THEN skip_space(s, i + 1) ELSE i

\* re.sub(r'\s*-\s*', ' - ', text), line 211: every "-", with the whitespace
\* around it, becomes " - ".
RECURSIVE sub_dash(_, _)
sub_dash(s, i) ==
    IF i > Len(s) THEN <<>>
    ELSE LET j == skip_space(s, i)
         IN  IF j <= Len(s) /\ s[j] = "-"
             THEN DASHSEP \o sub_dash(s, skip_space(s, j + 1))
             ELSE <<s[i]>> \o sub_dash(s, i + 1)

\* Where text.split(' - ') cuts: the places of " - ", from left to right,
\* none overlapping the one before.
RECURSIVE split_hits(_, _)
split_hits(s, i) ==
    IF i > Len(s) THEN <<>>
    ELSE IF IsAt(s, DASHSEP, i) THEN <<i>> \o split_hits(s, i + Len(DASHSEP))
         ELSE split_hits(s, i + 1)

\* Lines 224-227.
TME == <<"t", ".", "m", "e", "/">>
TELEGRAM_ME == <<"t", "e", "l", "e", "g", "r", "a", "m", ".", "m", "e", "/">>
is_telegram(url) == Contains(url, TME) \/ Contains(url, TELEGRAM_ME)

\* The decimal digits, int() of a run of digits and str() of a number.
DIGITS == <<"0", "1", "2", "3", "4", "5", "6", "7", "8", "9">>
is_digit(c) == c \in Range(DIGITS)
digit_value(c) == (CHOOSE d \in 1..Len(DIGITS) : DIGITS[d] = c) - 1

RECURSIVE int_str(_)
int_str(ds) ==
    IF ds = <<>> THEN 0
    ELSE int_str(SubSeq(ds, 1, Len(ds) - 1)) * Len(DIGITS) + digit_value(ds[Len(ds)])

RECURSIVE str_int(_)
str_int(n) ==
    IF n < Len(DIGITS) THEN <<DIGITS[n + 1]>>
    ELSE str_int(n \div Len(DIGITS)) \o <<DIGITS[(n % Len(DIGITS)) + 1]>>

RECURSIVE skip_digits(_, _)
skip_digits(s, i) ==
    IF i <= Len(s) /\ is_digit(s[i]) THEN skip_digits(s, i + 1) ELSE i

\* re.search(r'/(\d+)(?:[?#].*)?$', url), lines 231-232: the place of the
\* leftmost "/" followed by digits that run to the end of the URL or to a
\* "?" or "#"; 0 when there is none.
id_match(url) ==
    LET hits == {i \in 1..Len(url) :
                    /\ url[i] = "/"
                    /\ skip_digits(url, i + 1) > i + 1
                    /\ \/ skip_digits(url, i + 1) > Len(url)
                       \/ url[skip_digits(url, i + 1)] \in {"?", "#"}}
    IN  IF hits = {} THEN 0 ELSE CHOOSE i \in hits : \A j \in hits : i <= j

\* group(1) of the match that starts at i.
id_group(url, i) == SubSeq(url, i + 1, skip_digits(url, i + 1) - 1)

\* Line 245.
MAX_RANGE_SIZE == 1000

\* What parse_url_range returns: None, or the list of URLs.
NoRange == [is_none |-> TRUE, url_list |-> <<>>]
UrlList(url_list) == [is_none |-> FALSE, url_list |-> url_list]

\* Mutant: a range of MAX_RANGE_SIZE + 1 URLs is accepted.
range_too_large_by_two(start_id, end_id) == end_id - start_id > MAX_RANGE_SIZE

\* Line 246.
range_too_large(start_id, end_id) == end_id - start_id + 1 > MAX_RANGE_SIZE

\* parse_url_range, lines 199-257.
parse_url_range(text) ==
    LET separated == sub_dash(text, 1)
        hits == split_hits(separated, 1)
    IN  IF Len(hits) # 1 THEN NoRange
        ELSE LET start_url == strip(SubSeq(separated, 1, hits[1] - 1))
                 end_url == strip(SubSeq(separated, hits[1] + Len(DASHSEP),
                                         Len(separated)))
                 start_match == id_match(start_url)
                 end_match == id_match(end_url)
                 start_id == int_str(id_group(start_url, start_match))
                 end_id == int_str(id_group(end_url, end_match))
                 base_url == SubSeq(start_url, 1, start_match - 1) \o <<"/">>
             IN  IF ~is_telegram(start_url) \/ ~is_telegram(end_url) THEN NoRange
                 ELSE IF start_match = 0 \/ end_match = 0 THEN NoRange
                 ELSE IF start_id > end_id THEN NoRange
                 ELSE IF range_too_large(start_id, end_id) THEN NoRange
                 ELSE UrlList([k \in 1..(end_id - start_id + 1) |->
                                  base_url \o str_int(start_id + k - 1)])

\* The texts given to parse_url_range: two links, each a prefix, "/" and a
\* message id, the first with or without a query, and between them a "-"
\* with or without whitespace.  span is the end id less the start id.
HTTPS == <<"h", "t", "t", "p", "s", ":", "/", "/">>
Prefixes == { HTTPS \o TME \o <<"c", "/", "1", "0", "0">>,
              HTTPS \o TME \o <<"x">> }
Spans == {0 - 1, 0, 1, 3, MAX_RANGE_SIZE - 1, MAX_RANGE_SIZE}
Separators == {DASHSEP, <<"-">>, <<"\t", "-", " ", " ">>}
Queries == {<<>>, QSINGLE}

ParseArgs ==
    [start_prefix : Prefixes, end_prefix : Prefixes, start_id : 1..MaxStart,
     span : Spans, separator : Separators, query : Queries]

range_text(a) ==
    a.start_prefix \o <<"/">> \o str_int(a.start_id) \o a.query
    \o a.separator
    \o a.end_prefix \o <<"/">> \o str_int(a.start_id + a.span)

\* parse_url_range is called on the text.
ParseCall ==
    /\ tracking = "parse_url_range"
    /\ returned = <<>>
    /\ returned' = <<parse_url_range(range_text(arg))>>
    /\ UNCHANGED <<stores, redis, memory, worker, reply, counters, history, file_lock,
                   runner, observed, arg>>

\* ----------------------------------------------------------- specification
\* The state after the first start in an empty data directory.
StartArg(available, tracked, args) ==
    /\ queue_file = <<>>
    /\ processing_file = <<>>
    /\ finished_file = <<>>
    /\ failed_file = <<>>
    /\ redis_available \in available
    /\ redis_set = {}
    /\ queue = <<>>
    /\ queue_links = <<>>
    /\ current_processing = <<>>
    /\ bulk_batches = <<>>
    /\ pc = "idle"
    /\ tool_result = <<>>
    /\ current_progress = <<>>
    /\ reply = NoReply
    /\ msg_count = 0
    /\ crash_count = 0
    /\ tracking = tracked
    /\ cancelled = {}
    /\ accepted = {}
    /\ startup_files = [processing |-> <<>>, queue |-> <<>>]
    /\ claimed_order = <<>>
    /\ failed_ids = {}
    /\ submitted = <<>>
    /\ orphans = 0
    /\ runner_pc = "off"
    /\ url_forward = <<>>
    /\ done_url = <<>>
    /\ processed_urls = {}
    /\ runner_redis_available = FALSE
    /\ runner_redis_set = {}
    /\ runner_lines = <<>>
    /\ pending = {}
    /\ summaries = <<>>
    /\ opened = 0
    /\ item_replies = <<>>
    /\ unnotified = {}
    /\ told_success = {}
    /\ cooldown_due = FALSE
    /\ lock_free = {}
    /\ file_lock = "free"
    /\ arg \in args
    /\ returned = <<>>

Start(available, tracked) == StartArg(available, tracked, {NoneVal})

Init == Start(BOOLEAN, "none")

\* The worker's steps and the handlers that leave finished.txt alone.
NormalFlow ==
    \/ HandleMessage
    \/ WorkerClaim
    \/ WorkerDequeue
    \/ ToolRaises
    \/ ToolExits
    \/ ProcessLinkSuccess
    \/ WorkerClear
    \/ ProcessLinkFailure
    \/ RemoveCommand
    \/ ClearCommand

FinishedAdmin ==
    \/ EmptyFinishedCommand
    \/ DeleteLinkFinishedCommand

Next == NormalFlow \/ FinishedAdmin \/ Crash

\* The bot, with or without Redis, with restarts.
Spec == Init /\ [][Next]_vars

\* The same, recording the history of the admin commands.
InitTracked == Start(BOOLEAN, "admin")
SpecTracked == InitTracked /\ [][Next]_vars

\* The bot on a host without Redis.
InitFiles == Start({FALSE}, "none")
NextFiles == NormalFlow \/ FinishedAdmin \/ CrashNoRedis
SpecFiles == InitFiles /\ [][NextFiles]_vars

\* The bot on a host without Redis and without the commands that edit
\* finished.txt, recording what each start loaded and the claims that followed.
InitRecovery == Start({FALSE}, "recovery")
SpecRecovery == InitRecovery /\ [][NormalFlow \/ CrashNoRedis]_vars

\* One run of the process in which no admin command touches finished.txt.
SpecNormal == Init /\ [][NormalFlow]_vars

\* The same, with the twice-nested link among the messages.
SpecDeep == Init /\ [][NormalFlow \/ HandleDeepMessage]_vars

\* The bot on a host without Redis, recording the jobs accepted since the
\* last start.
InitFifo == Start({FALSE}, "fifo")
SpecFifo == InitFifo /\ [][NextFiles]_vars

\* The bot on a host without Redis, recording the failed runs.
InitRetry == Start({FALSE}, "retry")
SpecRetry == InitRetry /\ [][NextFiles]_vars

\* One run of the process on a host without Redis, recording the
\* subprocesses left behind.
InitSubprocess == Start({FALSE}, "subprocess")
SpecSubprocess == InitSubprocess /\ [][NormalFlow \/ OrphanExits]_vars

\* One run of the process on a host without Redis, with the tool's output
\* spelled out.
OutputFlow ==
    \/ HandleMessage
    \/ WorkerClaim
    \/ WorkerDequeue
    \/ ToolRaises
    \/ ToolExitsOutput
    \/ ProcessLinkSuccess
    \/ WorkerClear
    \/ ProcessLinkFailure

SpecOutput == InitFiles /\ [][OutputFlow]_vars

\* One run of the process in which every tool run comes to its end (the tool
\* starts and its output is read without an exception), recording the
\* batches opened and the summaries sent.
BatchFlow ==
    \/ HandleMessage
    \/ WorkerClaim
    \/ WorkerDequeue
    \/ ToolExits
    \/ ProcessLinkSuccess
    \/ WorkerClear
    \/ ProcessLinkFailure
    \/ RemoveCommand
    \/ ClearCommand

InitBatch == Start(BOOLEAN, "batch")
SpecBatch == InitBatch /\ [][BatchFlow]_vars

\* One run of the process on a host without Redis, recording the replies
\* process_link sends for the job it runs.
InitReply == Start({FALSE}, "reply")
SpecReply == InitReply /\ [][NormalFlow]_vars

\* One run of the process on a host without Redis, recording the identifiers
\* whose success message could not be sent.
InitNotify == Start({FALSE}, "notify")
SpecNotify == InitNotify /\ [][NormalFlow]_vars

\* One run of the process on a host without Redis whose disk can refuse the
\* append to finished.txt, recording the identifiers reported as forwarded.
InitPersist == Start({FALSE}, "persist")
SpecPersist == InitPersist /\ [][NormalFlow \/ ProcessLinkWriteFails]_vars

\* normalize_url, on every argument of NormalizeArgs.
InitNormalize == StartArg({FALSE}, "normalize_url", NormalizeArgs)
SpecNormalize == InitNormalize /\ [][NormalizeCall]_vars

\* parse_url_range, on every text of ParseArgs.
InitParse == StartArg({FALSE}, "parse_url_range", ParseArgs)
SpecParse == InitParse /\ [][ParseCall]_vars

\* One run of the process on a host without Redis, recording the files read
\* or written by code that does not hold file_lock.
InitLock == Start({FALSE}, "lock")
SpecLock == InitLock /\ [][NormalFlow]_vars

\* One run of the process on a host without Redis, recording whether the
\* last run failed.
InitCooldown == Start({FALSE}, "cooldown")
SpecCooldown == InitCooldown /\ [][NormalFlow]_vars

\* One run of the process on a host without Redis, with the three commands
\* that edit finished.txt.
AdminFlow == NormalFlow \/ FinishedAdmin \/ SanitizeFinishedCommand
SpecAdmin == InitFiles /\ [][AdminFlow]_vars

\* One run of the process, with tool runs that raise, recording the batches
\* opened and the summaries sent.
SpecClose == InitBatch /\ [][NormalFlow]_vars

\* The bot on a host without Redis, with the progress lines of the tool and
\* without the commands that edit the queue.
StatusFlow ==
    \/ HandleMessage
    \/ WorkerClaim
    \/ WorkerDequeue
    \/ ToolRaises
    \/ ToolProgress
    \/ ToolExits
    \/ ProcessLinkSuccess
    \/ WorkerClear
    \/ ProcessLinkFailure
    \/ CrashNoRedis

SpecStatus == InitFiles /\ [][StatusFlow]_vars

\* One run of the process on a host without Redis in which every tool run
\* comes to its end, with the handler of /remove suspended at its reply and
\* with writes the file system refuses.
LiveFlow ==
    \/ HandleMessage
    \/ WorkerClaim
    \/ WorkerClaimRaises
    \/ WorkerDequeue
    \/ ToolRaises
    \/ ToolExits
    \/ ProcessLinkSuccess
    \/ ProcessLinkWriteFails
    \/ WorkerClear
    \/ ProcessLinkFailure
    \/ RemoveCommandAwaits
    \/ RemoveCommandReplied
    \/ WorkerBlocks

\* What the worker task does when the event loop runs it.
WorkerSteps ==
    \/ WorkerClaim
    \/ WorkerClaimRaises
    \/ WorkerDequeue
    \/ ToolRaises
    \/ ToolExits
    \/ ProcessLinkSuccess
    \/ ProcessLinkWriteFails
    \/ WorkerClear
    \/ ProcessLinkFailure
    \/ WorkerBlocks

\* The event loop runs every task that is ready, the tool ends and the call
\* that sends a reply returns or raises; nothing obliges a user to send a
\* message.
SpecLive ==
    /\ InitFiles
    /\ [][LiveFlow]_vars
    /\ WF_vars(WorkerSteps)
    /\ WF_vars(RemoveCommandReplied)

\* The file-queue runner, started once.
RunnerNext == RunnerStart \/ RunnerStep
SpecRunner == InitFiles /\ [][RunnerNext]_vars

\* The file-queue runner, started once on a file that can hold empty lines.
SpecRunnerLines == InitFiles /\ [][RunnerStartLines \/ RunnerStep]_vars

\* The file-queue runner and a clipboard monitor, two processes.
ProducerNext == RunnerStart \/ RunnerReads \/ RunnerWrites \/ ProducerAppends
SpecProducer == InitFiles /\ [][ProducerNext]_vars

\* ------------------------------------------------------------------ claims
\* The lines of the three partitions, as read_lines returns them.
Queued == Range(read_lines(queue_file))
InFlight == Range(read_lines(processing_file))
Done == Range(read_lines(finished_file))

\* The identifier the worker uses for the job it holds: the job's URL
\* normalized again (lines 483, 486, 508 and 293).
CurrentId == normalize_url(current_processing[1].url)

\* The worker is between two operations, not between two file writes of one.
Settled == pc \in {"idle", "running", "exited"}

\* C1: in a run without a crash and without an admin deletion from
\* finished.txt, the tool never runs for an identifier that is already in
\* finished.txt (the worker appends an identifier only after its run, so an
\* ended run of an identifier found in finished.txt started after the append).
C1_DoneNeverRunsAgain ==
    pc = "exited" => CurrentId \notin Done

\* C2 (I1): no identifier is at once in queue.txt and in processing.txt, in
\* every state the files can be in, the states between the worker's two
\* writes included.
C2_QueuedInFlightDisjoint ==
    Queued \cap InFlight = {}

NewJobs == SubSeq(queue', Len(queue) + 1, Len(queue'))
NewLines == SubSeq(queue_file', Len(queue_file) + 1, Len(queue_file'))

\* C4: a message with a URL whose normalized identifier is in finished.txt
\* adds no job and no queue.txt line for that identifier, and its reply
\* reports the URL as a duplicate found in finished; whether Redis is in use
\* or not, and whether the lookup returns or raises.
C4_DoneIsRejected ==
    [][\A valid_urls \in Messages \cup DeepMessages :
       \A oks \in RedisOutcomes(Len(valid_urls)) :
          handle_message(valid_urls, oks) =>
             \A i \in 1..Len(valid_urls) :
                normalize_url(valid_urls[i]) \in Done =>
                   /\ \A j \in 1..Len(NewJobs) :
                         NewJobs[j].url # normalize_url(valid_urls[i])
                   /\ \A j \in 1..Len(NewLines) :
                         NewLines[j] # normalize_url(valid_urls[i])
                   /\ reply'.kind \in {"duplicate", "all_duplicates", "added_with_skipped"}
                   /\ <<normalize_url(valid_urls[i]), "finished">> \in Range(reply'.details)
      ]_vars

\* C5 (I4): between operations the URLs waiting in the in-memory queue are,
\* in order, the lines of queue.txt.
C5_QueueMirrorsFile ==
    Settled => [i \in 1..Len(queue) |-> queue[i].url] = read_lines(queue_file)

\* C6: the tool never runs for a job that /remove took from the queue, unless
\* the URL was submitted again.
C6_RemovedNeverRuns ==
    pc = "exited" => current_processing[1].url \notin cancelled

\* What load_persistent_state is to enqueue, from the files as they were at
\* the start: the in-flight identifier first, then the queued ones in order.
ExpectedAtStartup ==
    LET in_flight == read_lines(startup_files.processing)
        queued == read_lines(startup_files.queue)
    IN  (IF in_flight # <<>> THEN <<normalize_url(in_flight[1])>> ELSE <<>>)
        \o normalize_all(queued)

\* C7: after a start the worker's first claims are the in-flight identifier,
\* then the identifiers of queue.txt in stored order; a job submitted after
\* the start comes after them.
C7_RecoveryOrder ==
    /\ Len(claimed_order) <= Len(ExpectedAtStartup)
    /\ \A i \in 1..Len(claimed_order) : claimed_order[i] = ExpectedAtStartup[i]

\* A start found both stores non-empty, the worker has claimed all it
\* recovered, and a job submitted since waits in the queue.
C7_Witness ==
    /\ crash_count > 0
    /\ read_lines(startup_files.processing) # <<>>
    /\ read_lines(startup_files.queue) # <<>>
    /\ Len(claimed_order) = Len(ExpectedAtStartup)
    /\ queue # <<>>
    /\ queue[1].chat_id = "chat"

\* C8: every accepted job with no record in finished.txt or failed.txt, and
\* not removed by an admin command, is in queue.txt or in processing.txt.
C8_NoJobLost ==
    \A u \in accepted : u \in Queued \/ normalize_url(u) \in InFlight

\* The worker returns to queue.get() in this step (no crash).
ReturnsToIdle == pc' = "idle" /\ crash_count' = crash_count

\* C9 and C10 look at the stores the worker leaves behind.
IdIsDone == CurrentId \in Range(read_lines(finished_file'))
IdIsQueued == CurrentId \in Range(read_lines(queue_file'))
IdIsInFlight == CurrentId \in Range(read_lines(processing_file'))

C10_FailureLeavesNoTrace ==
    [][(pc = "exited" /\ ~succeeded /\ ReturnsToIdle)
          => (~IdIsQueued /\ ~IdIsInFlight /\ ~IdIsDone)]_vars

\* C11: whenever the worker waits in queue.get(), processing.txt is empty and
\* /status answers that no link is under process (in one run of the process:
\* after a success, a failure, a failed launch, a failed notification).
C11_EmptyWhenIdle ==
    pc = "idle" => (InFlight = {} /\ status_command = <<"No link under process.">>)

\* The run that has just ended printed a line with the marker.
SawMarker(marker) ==
    \E i \in 1..Len(tool_result[1].output) : Contains(tool_result[1].output[i], marker)

\* The step appends one record for the job's identifier to failed.txt.
FailureRecorded ==
    /\ Len(failed_file') = Len(failed_file) + 1
    /\ SubSeq(failed_file', 1, Len(failed_file)) = failed_file
    /\ failed_file'[Len(failed_file')].url = CurrentId

\* C12: when the worker handles a run that exited 0 and printed a line
\* containing "invalid message", it appends a record for the identifier to
\* failed.txt and nothing to finished.txt.
C12_InvalidIsFailure ==
    [][(pc = "exited" /\ pc' # "exited"
        /\ tool_result[1].returncode = 0 /\ SawMarker(INVALID_MESSAGE))
          => (FailureRecorded /\ finished_file' = finished_file)]_vars

\* The run that has just ended is a failure: a non-zero exit code, or an
\* error, deleted or invalid marker in the output.
RunFailed ==
    \/ tool_result[1].returncode # 0
    \/ SawMarker(ERROR)
    \/ SawMarker(MAY_BE_DELETED)
    \/ SawMarker(INVALID_MESSAGE)

\* The reason tags the run's output allows: deleted or invalid when such a
\* marker was printed anywhere in the output, generic-error otherwise.
ExpectedReasons ==
    LET terminal == (IF SawMarker(MAY_BE_DELETED) THEN {"deleted"} ELSE {})
                    \cup (IF SawMarker(INVALID_MESSAGE) THEN {"invalid"} ELSE {})
    IN  IF terminal # {} THEN terminal ELSE {"generic-error"}

\* C13: when the worker handles a failed run it appends exactly one record to
\* failed.txt, and the record's reason is deleted or invalid if such a marker
\* was printed before or after an error line, generic-error otherwise.
C13_FailureCarriesReason ==
    [][(pc = "exited" /\ pc' # "exited" /\ RunFailed)
          => (FailureRecorded
              /\ failed_file'[Len(failed_file')].reason \in ExpectedReasons)]_vars

\* C14: the worker does not start the tool for an identifier whose run ended
\* in failure, unless a job for that identifier was waiting at the time of
\* the failure or has been accepted since.
C14_NoAutomaticRetry ==
    pc = "running" => CurrentId \notin failed_ids

\* C15: the worker claims a job only when no subprocess started for an
\* earlier job is still alive, so that at most one is alive at any time.
C15_SingleFlight ==
    [][(pc = "idle" /\ pc' = "claiming") => orphans = 0]_vars

\* C16: a job accepted since the last start (it carries a chat, which a
\* recovered job does not) is claimed only when it is the oldest job accepted
\* since that start and not yet claimed: submitted jobs are claimed in the
\* order of their acceptance, and only recovered jobs go before them.
C16_Fifo ==
    [][(pc = "idle" /\ pc' = "claiming" /\ current_processing'[1].chat_id # NoneVal)
          => (submitted # <<>> /\ current_processing'[1] = Head(submitted))]_vars

\* After a restart that followed a failed run, the worker has claimed a
\* submitted job while a job submitted later waits.
C16_Witness ==
    /\ crash_count > 0
    /\ failed_file # <<>>
    /\ pc = "claiming"
    /\ current_processing[1].chat_id # NoneVal
    /\ submitted # <<>>
    /\ Len(queue) = Len(submitted)

\* The URLs handle_message passes to the lookup: the normalized URLs of the
\* messages.
LookupArgs ==
    UNION {{normalize_url(valid_urls[i]) : i \in 1..Len(valid_urls)} :
              valid_urls \in Messages \cup DeepMessages}

\* The first partition, in the order done, in-flight, queued, that holds the
\* identifier; None when none does.
FirstMatch(id) ==
    IF id \in Done THEN "finished"
    ELSE IF id \in InFlight THEN "processing"
    ELSE IF id \in Queued THEN "queue"
    ELSE NoneVal

\* C17: in every state, for every URL, the lookup returns the first of done,
\* in-flight, queued that holds the URL's normalized identifier, and None
\* only when none does; whether the Redis call returns or raises.
C17_LookupPrecedence ==
    \A url \in LookupArgs : \A oks \in RedisOutcomes(1) :
        is_url_processed_anywhere(url, queue_file, oks[1]) = FirstMatch(normalize_url(url))

\* The submission of url is rejected, when the Redis call returns (TRUE) or
\* when only the files are consulted (FALSE).
Rejected(url, redis_ok) ==
    is_url_processed_anywhere(url, queue_file, redis_ok) # NoneVal

\* C18: in every state the bot with Redis can reach, every submission gets
\* the decision the files alone give it.
C18_AcceleratorAdvisory ==
    redis_available =>
        \A url \in LookupArgs : Rejected(url, TRUE) <=> Rejected(url, FALSE)

\* C19: a Redis call that raises during the lookup or during the marking
\* never ends the caller with the exception: no pass of the file-queue
\* runner's loop ends the script.
C19_AcceleratorFailureSilent ==
    [][runner_pc = "loop" => runner_pc' # "crashed"]_vars

\* C20: when handle_message has handled a message with more than one URL,
\* either it put no job in the queue and the message has no batch record, or
\* the message has exactly one new batch record, every job it put in the
\* queue carries that batch's id, and the batch's total is the number of
\* these jobs.
C20_BatchTotalIsEnqueued ==
    [][\A valid_urls \in Messages : \A oks \in RedisOutcomes(Len(valid_urls)) :
          (Len(valid_urls) > 1 /\ handle_message(valid_urls, oks)) =>
             LET new_batches == DOMAIN bulk_batches' \ DOMAIN bulk_batches
             IN  IF NewJobs = <<>>
                 THEN new_batches = {}
                 ELSE \E batch_id \in new_batches :
                         /\ new_batches = {batch_id}
                         /\ \A j \in 1..Len(NewJobs) : NewJobs[j].batch_id = batch_id
                         /\ bulk_batches'[batch_id].total = Len(NewJobs)
      ]_vars

\* A message of two URLs has just been handled: one was a duplicate, the
\* other is the last job of the queue, in a batch whose total is 1.
C20_Witness ==
    /\ reply.kind = "added_with_skipped"
    /\ queue # <<>>
    /\ queue[Len(queue)].batch_id \in DOMAIN bulk_batches
    /\ bulk_batches[queue[Len(queue)].batch_id].total = 1

\* The jobs of batch batch_id whose outcome is not counted yet: those waiting
\* in the queue and the one the worker holds before its outcome.
Remaining(batch_id) ==
    Cardinality({i \in 1..Len(queue) : queue[i].batch_id = batch_id})
    + (IF pc \in {"claiming", "running", "exited"}
          /\ current_processing[1].batch_id = batch_id
       THEN 1 ELSE 0)

RunEnds == pc \in {"running", "exited"} /\ pc' \in {"idle", "marking"}

\* C22: the step that ends the run of a job submitted from a chat sends
\* exactly one reply for the job when the job is in no batch, and no reply
\* for the job when it is a member of a batch.
C22_OneReplyPerJob ==
    [][(RunEnds /\ current_processing[1].chat_id # NoneVal) =>
          IF current_processing[1].batch_id = 0
          THEN Len(item_replies') = Len(item_replies) + 1
          ELSE item_replies' = item_replies
      ]_vars

\* C23: as long as the process runs, an identifier whose tool run succeeded
\* and whose success message could not be sent is in processing.txt and not
\* in finished.txt, whatever the worker does afterwards.
C23_UnnotifiedStaysInFlight ==
    \A id \in unnotified : id \in InFlight /\ id \notin Done

\* C24: an identifier reported to its submitter as forwarded (by the success
\* message of a single link, or by the summary of the batch its outcome
\* completes) is in finished.txt.
C24_ToldSuccessIsDone ==
    told_success \subseteq Done

\* C25: normalize_url applied to what normalize_url returned returns it
\* unchanged.
C25_NormalizeIdempotent ==
    Len(returned) = 2 => returned[2] = returned[1]

\* The URLs prefix/first, ..., prefix/last.
Identifiers(prefix, first, last) ==
    [k \in 1..(last - first + 1) |-> prefix \o <<"/">> \o str_int(first + k - 1)]

\* C26: for a text whose two links have the same prefix, parse_url_range
\* returns None when the end id is below the start id or the range has more
\* than MAX_RANGE_SIZE ids, and otherwise the URLs prefix/s, ..., prefix/e in
\* ascending order (a range of exactly MAX_RANGE_SIZE ids included).
C26_RangeExpansion ==
    (tracking = "parse_url_range" /\ returned # <<>>
     /\ arg.start_prefix = arg.end_prefix) =>
        returned[1] =
            IF arg.span < 0 \/ arg.span + 1 > MAX_RANGE_SIZE
            THEN NoRange
            ELSE UrlList(Identifiers(arg.start_prefix, arg.start_id,
                                     arg.start_id + arg.span))

\* A range of exactly MAX_RANGE_SIZE ids has been expanded.
C26_Witness ==
    /\ tracking = "parse_url_range"
    /\ returned # <<>>
    /\ arg.start_prefix = arg.end_prefix
    /\ arg.span + 1 = MAX_RANGE_SIZE
    /\ Len(returned[1].url_list) = MAX_RANGE_SIZE

\* C27: when parse_url_range returns a list, the two links of the text have
\* the same prefix, every URL of the list starts with it, and the last URL
\* of the list is the end link.
C27_RangeWithinCommonPrefix ==
    (tracking = "parse_url_range" /\ returned # <<>> /\ ~returned[1].is_none) =>
        LET url_list == returned[1].url_list
        IN  /\ arg.start_prefix = arg.end_prefix
            /\ \A k \in 1..Len(url_list) : IsAt(url_list[k], arg.end_prefix, 1)
            /\ url_list[Len(url_list)] =
                  arg.end_prefix \o <<"/">> \o str_int(arg.start_id + arg.span)

\* C28: no handler and no step of the worker reads or writes queue.txt,
\* processing.txt, finished.txt or failed.txt without holding file_lock.
C28_StoresUnderLock ==
    lock_free = {}

\* C29: the worker does not take the next job from the queue straight after
\* a run that failed: a delay comes between the two.
C29_CooldownAfterFailure ==
    [][(pc = "idle" /\ pc' = "claiming") => ~cooldown_due]_vars

\* The lines of old are the first lines of new, in the same order.
IsPrefix(old, new) == Len(old) <= Len(new) /\ SubSeq(new, 1, Len(old)) = old

\* C30: a step that is none of /empty_finished, /delete_link_finished and
\* /sanitize_finished_urls leaves every line of finished.txt in place: the
\* file is as before or has new lines after the old ones.
C30_DoneOnlyGrows ==
    [][IsPrefix(finished_file, finished_file')
       \/ EmptyFinishedCommand
       \/ DeleteLinkFinishedCommand
       \/ SanitizeFinishedCommand]_vars

\* Two runs have succeeded, the second appending after the first.
C30_Witness ==
    Len(finished_file) = 2 /\ pc = "idle"

\* C31: when the worker is back at queue.get() the progress snapshot is none,
\* and the progress a status reply shows was printed by the run of the job
\* whose identifier the reply lists.
C31_ProgressOfListedJob ==
    /\ pc = "idle" => current_progress = <<>>
    /\ (HandlerCanRun /\ Len(status_command) > 2)
          => status_command[2] = normalize_url(current_progress[1].url)

\* A status reply shows the progress of the running job after an earlier job
\* was let go with its identifier left in processing.txt or finished.txt.
C31_Witness ==
    /\ pc \in {"running", "exited"}
    /\ Len(status_command) > 2
    /\ finished_file # <<>> \/ failed_file # <<>>

\* C32: a submission enqueues no job whose normalized identifier is carried
\* by a job that waits in the queue or is held by the worker, and no two jobs
\* of one identifier: of the submissions of one identifier handled while the
\* first one's job is pending, only the first enqueues.
C32_OneEnqueuePerIdentifier ==
    [][\A j \in 1..Len(NewJobs) :
          /\ \A i \in 1..Len(queue) : queue[i].url # NewJobs[j].url
          /\ \A i \in 1..Len(current_processing) :
                current_processing[i].url # NewJobs[j].url
          /\ \A k \in 1..Len(NewJobs) : k # j => NewJobs[k].url # NewJobs[j].url
      ]_vars

\* The jobs of batch batch_id among jobs.
OfBatch(jobs, batch_id) == {i \in 1..Len(jobs) : jobs[i].batch_id = batch_id}

\* C33: the jobs of a batch are all enqueued by the step that opens it and
\* its total is their number from then on; the step that deletes the batch
\* record is the outcome of the last of these jobs, none of them is waiting
\* after it, and it sends the summary with that total.
C33_BatchClosesLast ==
    [][/\ \A j \in 1..Len(NewJobs) :
             NewJobs[j].batch_id # 0 =>
                /\ NewJobs[j].batch_id \notin DOMAIN bulk_batches
                /\ OfBatch(queue, NewJobs[j].batch_id) = {}
                /\ OfBatch(current_processing, NewJobs[j].batch_id) = {}
       /\ \A batch_id \in DOMAIN bulk_batches' \ DOMAIN bulk_batches :
             bulk_batches'[batch_id].total
                = Cardinality(OfBatch(NewJobs, batch_id))
       /\ \A batch_id \in DOMAIN bulk_batches \cap DOMAIN bulk_batches' :
             bulk_batches'[batch_id].total = bulk_batches[batch_id].total
       /\ \A batch_id \in DOMAIN bulk_batches \ DOMAIN bulk_batches' :
             /\ OfBatch(current_processing, batch_id) # {}
             /\ OfBatch(queue', batch_id) = {}
             /\ Len(summaries') = Len(summaries) + 1
             /\ summaries'[Len(summaries')].total = bulk_batches[batch_id].total
      ]_vars

\* The batch of two jobs was closed by the outcome of its second job, both
\* forwarded, and the worker is back at queue.get() with nothing waiting.
C33_Witness ==
    /\ Len(summaries) = 1
    /\ summaries[1] = [completed |-> 2, failed |-> 0, total |-> 2]
    /\ queue = <<>>
    /\ pc = "idle"

\* C34: the queue load_persistent_state builds at a restart holds no two
\* jobs of one normalized identifier and no job whose normalized identifier
\* is a line of finished.txt, whatever the point the process died at.
C34_RecoveredQueueClean ==
    [][crash_count' # crash_count =>
          /\ \A i, j \in 1..Len(queue') :
                i # j => normalize_url(queue'[i].url) # normalize_url(queue'[j].url)
          /\ \A i \in 1..Len(queue') : normalize_url(queue'[i].url) \notin Done
      ]_vars

\* C35: no normalized identifier is on two lines of finished.txt.
C35_DoneHasNoRepeats ==
    LET finished == read_lines(finished_file)
    IN  \A i, j \in 1..Len(finished) :
           i # j => normalize_url(finished[i]) # normalize_url(finished[j])

\* The identifiers with a record in failed.txt.
Failed == {failed_file[i].url : i \in 1..Len(failed_file)}

\* C36: an identifier the worker left in processing.txt when it went back to
\* queue.get() is, after any further step of the running process (the claim
\* of the next job among them), in processing.txt, in finished.txt or in a
\* record of failed.txt.
C36_ClaimedLeavesTrace ==
    [][(pc = "idle" /\ crash_count' = crash_count) =>
          \A id \in InFlight : id \in InFlight' \/ id \in Done' \/ id \in Failed'
      ]_vars

\* The lengths the queue can have.
QueueLengths == 1..(2 * MaxMessages)

\* C37: when every tool run ends and the process is not restarted, a queue
\* of n jobs is followed by a shorter one: the worker claims the job at its
\* head, whatever errors the jobs before it met.
C37_EveryJobClaimed ==
    \A n \in QueueLengths : (Len(queue) = n) ~> (Len(queue) < n)

\* C38: the runner ends its loop only on a url-forward.txt that holds no URL
\* line.
C38_StopsOnlyWithoutUrlLine ==
    [][(runner_pc = "loop" /\ runner_pc' = "stopped") =>
          \A i \in 1..Len(url_forward) : strip(url_forward[i]) = <<>>
      ]_vars

\* C39: a line a monitor appended stays in url-forward.txt until it is the
\* head line handed to process_url.
C39_AppendedLineKept == \A u \in pending : u \in Range(url_forward)

====
